---- MODULE Spec2Model ----
(***************************************************************************)
(* GenerAI Influence Sentinel (app.py): the Streamlit script as a state    *)
(* machine.  One script run is load_model, the Analyze handler (when the   *)
(* button was pressed) and the drift section; history.json is the only     *)
(* state that survives a run.                                              *)
(*                                                                         *)
(* Scores are multiples of 0.5 in the program (weights 2, 1.5, 2 on        *)
(* integer counts).  Every score below is kept in HALF UNITS, i.e. the     *)
(* program's value times 2: 1.5 is 3, 8 is 16.  Text is a sequence of      *)
(* one-character strings.                                                  *)
(***************************************************************************)
EXTENDS Integers, Sequences, FiniteSets, TLC

\* ------------------------------------------------------------------ bounds
\* analyses per behaviour of the script specifications
MaxRuns == 2
\* longest history drawn for the drift specification
MaxLen == 6
\* largest keyword count drawn for the DNA specification
MaxCount == 7
\* concurrent save_history calls
NThreads == 2

\* ---------------------------------------------------------------- lexicon

fear_words ==
    << <<"r", "e", "g", "r", "e", "t">>,
       <<"d", "a", "n", "g", "e", "r">>,
       <<"l", "o", "s", "s">>,
       <<"f", "e", "a", "r">>,
       <<"r", "i", "s", "k">>,
       <<"l", "o", "s", "e">>,
       <<"t", "h", "r", "e", "a", "t">> >>

urgency_words ==
    << <<"n", "o", "w">>,
       <<"i", "m", "m", "e", "d", "i", "a", "t", "e", "l", "y">>,
       <<"l", "i", "m", "i", "t", "e", "d">>,
       <<"h", "u", "r", "r", "y">>,
       <<"t", "o", "d", "a", "y">>,
       <<"u", "r", "g", "e", "n", "t">>,
       <<"l", "a", "s", "t", " ", "c", "h", "a", "n", "c", "e">> >>

\* ------------------------------------------------- inputs of the text area
TextEmpty ==
    <<>>

TextSpaces ==
    <<" ", " ">>

TextBlankLines ==
    <<" ", "\n", "\t">>

TextHello ==
    <<"H", "e", "l", "l", "o">>

TextCloset ==
    <<"c", "l", "o", "s", "e", "t">>

TextToday ==
    <<"H", "e", "l", "l", "o", ",", " ", "h", "o", "w", " ", "a", "r", "e", " ", "y", "o", "u", " ", "t", "o", "d", "a", "y", "?">>

TextLastChance ==
    <<"A", "c", "t", " ", "n", "o", "w", " ", "o", "r", " ", "y", "o", "u", " ", "w", "i", "l", "l", " ", "r", "e", "g", "r", "e", "t", " ", "i", "t", ",", " ", "t", "h", "i", "s", " ", "i", "s", " ", "y", "o", "u", "r", " ", "l", "a", "s", "t", " ", "c", "h", "a", "n", "c", "e", "!">>

TextDemo3 ==
    <<"L", "i", "m", "i", "t", "e", "d", " ", "o", "f", "f", "e", "r", " ", "t", "o", "d", "a", "y", "!", " ", "H", "u", "r", "r", "y", " ", "b", "e", "f", "o", "r", "e", " ", "y", "o", "u", " ", "l", "o", "s", "e", " ", "t", "h", "i", "s", " ", "o", "p", "p", "o", "r", "t", "u", "n", "i", "t", "y", ".">>

Texts ==
    {TextEmpty, TextSpaces, TextBlankLines, TextHello, TextCloset, TextToday,
     TextLastChance, TextDemo3}

\* positions of the slider (0..15, default 5)
Thresholds == {5, 15}

\* labels the sentiment pipeline returns
Labels == {"POSITIVE", "NEGATIVE"}

\* ------------------------------------------------------- string functions

ToLower ==
    ("A" :> "a") @@ ("B" :> "b") @@ ("C" :> "c") @@ ("D" :> "d") @@ ("E" :> "e") @@ ("F" :> "f") @@ ("G" :> "g") @@ ("H" :> "h") @@ ("I" :> "i") @@ ("J" :> "j") @@ ("K" :> "k") @@ ("L" :> "l") @@ ("M" :> "m") @@ ("N" :> "n") @@ ("O" :> "o") @@ ("P" :> "p") @@ ("Q" :> "q") @@ ("R" :> "r") @@ ("S" :> "s") @@ ("T" :> "t") @@ ("U" :> "u") @@ ("V" :> "v") @@ ("W" :> "w") @@ ("X" :> "x") @@ ("Y" :> "y") @@ ("Z" :> "z")

Whitespace == {" ", "\t", "\n", "\r"}

\* str.lower()
Lower(text) ==
    [i \in 1..Len(text) |-> IF text[i] \in DOMAIN ToLower THEN ToLower[text[i]] ELSE text[i]]

\* str.strip(): drop leading and trailing whitespace
RECURSIVE LStrip(_)
LStrip(text) ==
    IF text = <<>> THEN <<>>
    ELSE IF Head(text) \in Whitespace THEN LStrip(Tail(text)) ELSE text

RECURSIVE RStrip(_)
RStrip(text) ==
    IF text = <<>> THEN <<>>
    ELSE IF text[Len(text)] \in Whitespace THEN RStrip(SubSeq(text, 1, Len(text) - 1)) ELSE text

\* the text compared with "" as typed, without strip()
StripNothing(text) == text

Strip(text) == RStrip(LStrip(text))

\* `word in text`: substring containment
Contains(word, text) ==
    \E i \in 1..(Len(text) - Len(word) + 1) : SubSeq(text, i, i + Len(word) - 1) = word

\* [word for word in words if word in text.lower()]
Detect(words, text) ==
    SelectSeq(words, LAMBDA word : Contains(word, Lower(text)))

\* ------------------------------------------------------ scoring functions
\* sentiment_score = 1 if sentiment['label'] == "NEGATIVE" else 0
SentimentScore(label) == IF label = "NEGATIVE" THEN 1 ELSE 0

\* total_score = fear*2 + urgency*1.5 + sentiment*2, in half units
TotalScore(fear_score, urgency_score, sentiment_score) ==
    (fear_score * 4) + (urgency_score * 3) + (sentiment_score * 4)

\* a scoring profile of the other variants: negativity weighted 1.5
DnaScoreNegativityWeight15(f, u, s) ==
    (f * 4) + (u * 3) + (s * 3)

\* dna_score = fear*2 + urgency*1.5 + sentiment*2, in half units
DnaScore(f, u, s) ==
    (f * 4) + (u * 3) + (s * 4)

\* the thresholds taken as exclusive lower bounds
RiskLevelExclusive(score) ==
    IF score > 16 THEN "CRITICAL"
    ELSE IF score > 10 THEN "HIGH"
    ELSE IF score > 6 THEN "MEDIUM"
    ELSE "LOW"

\* if dna_score >= 8 ... elif >= 5 ... elif >= 3 ... else (half units)
RiskLevel(score) ==
    IF score >= 16 THEN "CRITICAL"
    ELSE IF score >= 10 THEN "HIGH"
    ELSE IF score >= 6 THEN "MEDIUM"
    ELSE "LOW"

\* the three `if` of the explainability section, in source order
Explanation(d_fear, d_urgency, s_val) ==
    (IF d_fear # <<>> THEN <<"fear">> ELSE <<>>)
    \o (IF d_urgency # <<>> THEN <<"urgency">> ELSE <<>>)
    \o (IF s_val # 0 THEN <<"negativity">> ELSE <<>>)

\* st.progress(min(int(total), 15) / 15): the numerator
Progress(t) == IF t \div 2 < 15 THEN t \div 2 ELSE 15

\* total > threshold (threshold in whole units)
Alert(t, thr) == t > 2 * thr

\* ------------------------------------------------------- history.json
\* A float is written as <<integer part, first decimal>>: 3.5 is <<3, 5>>.
FormatFloat(x) == <<x \div 2, IF x % 2 = 1 THEN 5 ELSE 0>>

ParseFloat(lit) == (2 * lit[1]) + (IF lit[2] >= 5 THEN 1 ELSE 0)

\* json.dump(history, f): the number literals of the array
JsonDump(h) == [i \in 1..Len(h) |-> FormatFloat(h[i])]

\* json.load(f) of a well-formed array
JsonLoad(items) == [i \in 1..Len(items) |-> ParseFloat(items[i])]

Digits(n) == IF n < 10 THEN 1 ELSE IF n < 100 THEN 2 ELSE 3

\* bytes of "[a.b, c.d, ...]"
RECURSIVE ItemBytes(_)
ItemBytes(items) ==
    IF items = <<>> THEN 0
    ELSE Digits(Head(items)[1]) + 2 + ItemBytes(Tail(items))

ByteLen(items) ==
    2 + ItemBytes(items) + (IF Len(items) > 1 THEN 2 * (Len(items) - 1) ELSE 0)

\* no history.json
MissingFile == [exists |-> FALSE, valid |-> FALSE, items |-> <<>>, size |-> 0]

\* open(HISTORY_FILE, "w") before anything is written: a zero-byte file
TruncatedFile == [exists |-> TRUE, valid |-> FALSE, items |-> <<>>, size |-> 0]

\* a file whose bytes are not JSON
GarbageFile == [exists |-> TRUE, valid |-> FALSE, items |-> <<>>, size |-> 9]

\* the file after a complete json.dump into a truncated file
WrittenFile(h) ==
    [exists |-> TRUE, valid |-> TRUE, items |-> JsonDump(h), size |-> ByteLen(JsonDump(h))]

\* a buffered dump flushed from offset 0 over whatever the file holds now:
\* a longer file keeps its tail, and the bytes no longer parse
FlushOver(f, h) ==
    IF ByteLen(JsonDump(h)) >= f.size THEN WrittenFile(h)
    ELSE [exists |-> TRUE, valid |-> FALSE, items |-> <<>>, size |-> f.size]

\* save_history, lines 79-83: ok = FALSE when json.load raises
ReadHistory(f) ==
    IF f.exists
    THEN IF f.valid THEN [ok |-> TRUE, value |-> JsonLoad(f.items)]
                    ELSE [ok |-> FALSE, value |-> <<>>]
    ELSE [ok |-> TRUE, value |-> <<>>]

\* the new score put in front of the list
HistoryAppendFront(h, score) == <<score>> \o h

\* history.append(score)
HistoryAppend(h, score) == Append(h, score)

\* load_history(): ok = FALSE when json.load raises
LoadHistory(f) ==
    IF f.exists
    THEN IF f.valid THEN [ok |-> TRUE, value |-> JsonLoad(f.items)]
                    ELSE [ok |-> FALSE, value |-> <<>>]
    ELSE [ok |-> TRUE, value |-> <<>>]

DriftWindow == 5

RECURSIVE MaxOf(_)
MaxOf(s) ==
    IF Len(s) = 1 THEN s[1]
    ELSE IF Head(s) >= MaxOf(Tail(s)) THEN Head(s) ELSE MaxOf(Tail(s))

RECURSIVE MinOf(_)
MinOf(s) ==
    IF Len(s) = 1 THEN s[1]
    ELSE IF Head(s) <= MinOf(Tail(s)) THEN Head(s) ELSE MinOf(Tail(s))

\* the whole history instead of its tail
RecentWholeHistory(h) == h

\* history[-5:]
Recent(h) ==
    IF Len(h) > DriftWindow THEN SubSeq(h, Len(h) - DriftWindow + 1, Len(h)) ELSE h

\* calculate_drift() on the list load_history returned
CalculateDrift(h) ==
    IF Len(h) < 2 THEN 0
    ELSE MaxOf(Recent(h)) - MinOf(Recent(h))

\* ------------------------------------------------------------------ state
VARIABLES
    file,              \* history.json
    model_cached,      \* st.cache_resource holds the pipeline
    model_available,   \* the sentiment pipeline can be loaded and called
    disk_writable,     \* open(HISTORY_FILE, "w") and the write succeed
    pc,                \* position of the script run
    pressed,           \* st.button("Analyze") of this run
    text_input,
    threshold,
    fear,
    urgency,
    sentiment_val,
    total,
    detected_fear,
    detected_urgency,
    dna_score,
    dna_level,
    screen,            \* what the run has rendered
    history,           \* the list the drift section loaded
    drift,
    raised,            \* the exception that ended the run, or "none"
    write_attempts,    \* times this run opened history.json for writing
    accepted,          \* total scores calculate_scores returned, in order
    calls,             \* functions this run has called
    tpc,               \* concurrent save_history calls: position,
    thistory,          \*   the local list `history`,
    tscore,            \*   the argument `score`,
    base               \*   and the history before any of them started

script_vars ==
    <<pc, pressed, text_input, threshold, fear, urgency, sentiment_val, total,
      detected_fear, detected_urgency, dna_score, dna_level, screen, history,
      drift, raised, write_attempts, accepted, calls>>

env_vars == <<model_cached, model_available, disk_writable>>

thread_vars == <<tpc, thistory, tscore, base>>

vars == <<file, env_vars, script_vars, thread_vars>>

Threads == 1..NThreads

BlankScreen ==
    [warning |-> FALSE, metrics |-> <<>>, banner |-> "NONE", progress |-> 0,
     explanation |-> <<>>, explained |-> FALSE, alert |-> "NONE"]

\* the locals of a script run before anything is assigned
FreshRun ==
    /\ fear = 0
    /\ urgency = 0
    /\ sentiment_val = 0
    /\ total = 0
    /\ detected_fear = <<>>
    /\ detected_urgency = <<>>
    /\ dna_score = 0
    /\ dna_level = "NONE"
    /\ screen = BlankScreen
    /\ history = <<>>
    /\ drift = 0
    /\ raised = "none"
    /\ write_attempts = 0
    /\ calls = {}

NoThreads ==
    /\ tpc = <<>>
    /\ thistory = <<>>
    /\ tscore = <<>>
    /\ base = <<>>

\* a fresh deployment: no history.json or an empty list, a working model
Init ==
    /\ file \in {MissingFile, WrittenFile(<<>>)}
    /\ model_cached = FALSE
    /\ model_available = TRUE
    /\ disk_writable = TRUE
    /\ pc = "idle"
    /\ pressed = FALSE
    /\ text_input = TextEmpty
    /\ threshold = 5
    /\ FreshRun
    /\ accepted = <<>>
    /\ NoThreads

\* ---------------------------------------------------------- script run
\* every widget interaction reruns the script top to bottom; press is
\* whether the interaction was the Analyze button
StartRun(press, text, thr) ==
    /\ pc = "idle"
    /\ press => Len(accepted) < MaxRuns
    /\ pc' = "load_model"
    /\ pressed' = press
    /\ text_input' = text
    /\ threshold' = thr
    /\ fear' = 0
    /\ urgency' = 0
    /\ sentiment_val' = 0
    /\ total' = 0
    /\ detected_fear' = <<>>
    /\ detected_urgency' = <<>>
    /\ dna_score' = 0
    /\ dna_level' = "NONE"
    /\ screen' = BlankScreen
    /\ history' = <<>>
    /\ drift' = 0
    /\ raised' = "none"
    /\ write_attempts' = 0
    /\ calls' = {}
    /\ UNCHANGED <<file, env_vars, accepted, thread_vars>>

\* an uncaught exception: Streamlit shows it and the run ends
Raise(what) ==
    /\ raised' = what
    /\ pc' = "idle"

LoadModel ==
    /\ pc = "load_model"
    /\ calls' = calls \cup {"load_model"}
    /\ IF model_cached \/ model_available
       THEN /\ model_cached' = TRUE
            /\ pc' = "button"
            /\ UNCHANGED raised
       ELSE /\ Raise("load_model")
            /\ UNCHANGED model_cached
    /\ UNCHANGED <<file, model_available, disk_writable, pressed, text_input,
                   threshold, fear, urgency, sentiment_val, total, detected_fear,
                   detected_urgency, dna_score, dna_level, screen, history, drift,
                   write_attempts, accepted, thread_vars>>

\* if st.button("Analyze"): if text_input.strip() == "": warning, stop
AnalyzeButton ==
    /\ pc = "button"
    /\ IF ~pressed
       THEN /\ pc' = "drift"
            /\ UNCHANGED screen
       ELSE IF Strip(text_input) = <<>>
       THEN /\ screen' = [screen EXCEPT !.warning = TRUE]
            /\ pc' = "idle"
       ELSE /\ pc' = "calculate_scores"
            /\ UNCHANGED screen
    /\ UNCHANGED <<file, env_vars, pressed, text_input, threshold, fear, urgency,
                   sentiment_val, total, detected_fear, detected_urgency,
                   dna_score, dna_level, history, drift, raised, write_attempts,
                   accepted, calls, thread_vars>>

CalculateScores ==
    /\ pc = "calculate_scores"
    /\ calls' = calls \cup {"calculate_scores"}
    /\ IF ~model_available
       THEN /\ Raise("model_call")
            /\ UNCHANGED <<fear, urgency, sentiment_val, total, detected_fear,
                           detected_urgency, accepted>>
       ELSE \E label \in Labels :
            LET d_fear == Detect(fear_words, text_input)
                d_urgency == Detect(urgency_words, text_input)
                score == TotalScore(Len(d_fear), Len(d_urgency), SentimentScore(label))
            IN  /\ detected_fear' = d_fear
                /\ detected_urgency' = d_urgency
                /\ fear' = Len(d_fear)
                /\ urgency' = Len(d_urgency)
                /\ sentiment_val' = SentimentScore(label)
                /\ total' = score
                /\ accepted' = Append(accepted, score)
                /\ pc' = "save_history"
                /\ UNCHANGED raised
    /\ UNCHANGED <<file, env_vars, pressed, text_input, threshold, dna_score,
                   dna_level, screen, history, drift, write_attempts, thread_vars>>

SaveHistory ==
    /\ pc = "save_history"
    /\ calls' = calls \cup {"save_history"}
    /\ LET r == ReadHistory(file)
       IN  IF ~r.ok
           THEN /\ Raise("read")
                /\ UNCHANGED <<file, write_attempts>>
           ELSE IF ~disk_writable
           THEN /\ Raise("write")
                /\ write_attempts' = write_attempts + 1
                /\ \E opened \in BOOLEAN :
                       file' = IF opened THEN TruncatedFile ELSE file
           ELSE /\ file' = FlushOver(TruncatedFile, HistoryAppend(r.value, total))
                /\ write_attempts' = write_attempts + 1
                /\ pc' = "dna"
                /\ UNCHANGED raised
    /\ UNCHANGED <<env_vars, pressed, text_input, threshold, fear, urgency,
                   sentiment_val, total, detected_fear, detected_urgency,
                   dna_score, dna_level, screen, history, drift, accepted,
                   thread_vars>>

CalculateInfluenceDna ==
    /\ pc = "dna"
    /\ calls' = calls \cup {"calculate_influence_dna"}
    /\ dna_score' = DnaScore(fear, urgency, sentiment_val)
    /\ dna_level' = RiskLevel(DnaScore(fear, urgency, sentiment_val))
    /\ pc' = "display"
    /\ UNCHANGED <<file, env_vars, pressed, text_input, threshold, fear, urgency,
                   sentiment_val, total, detected_fear, detected_urgency, screen,
                   history, drift, raised, write_attempts, accepted, thread_vars>>

\* metrics, risk banner, heat bar, explainability, alert
Display ==
    /\ pc = "display"
    /\ screen' = [screen EXCEPT
                    !.metrics = <<fear, urgency, sentiment_val, total, dna_score, dna_level>>,
                    !.banner = dna_level,
                    !.progress = Progress(total),
                    !.explanation = Explanation(detected_fear, detected_urgency, sentiment_val),
                    !.explained = TRUE,
                    !.alert = IF Alert(total, threshold) THEN "ALERT" ELSE "SAFE"]
    /\ pc' = "drift"
    /\ UNCHANGED <<file, env_vars, pressed, text_input, threshold, fear, urgency,
                   sentiment_val, total, detected_fear, detected_urgency,
                   dna_score, dna_level, history, drift, raised, write_attempts,
                   accepted, calls, thread_vars>>

\* history = load_history(); chart; drift = calculate_drift()
DriftSection ==
    /\ pc = "drift"
    /\ calls' = calls \cup {"load_history", "calculate_drift"}
    /\ LET r == LoadHistory(file)
       IN  IF ~r.ok
           THEN /\ Raise("read")
                /\ UNCHANGED <<history, drift>>
           ELSE /\ history' = r.value
                /\ drift' = CalculateDrift(r.value)
                /\ pc' = "idle"
                /\ UNCHANGED raised
    /\ UNCHANGED <<file, env_vars, pressed, text_input, threshold, fear, urgency,
                   sentiment_val, total, detected_fear, detected_urgency,
                   dna_score, dna_level, screen, write_attempts, accepted,
                   thread_vars>>

Next ==
    \/ \E press \in BOOLEAN, text \in Texts, thr \in Thresholds : StartRun(press, text, thr)
    \/ LoadModel
    \/ AnalyzeButton
    \/ CalculateScores
    \/ SaveHistory
    \/ CalculateInfluenceDna
    \/ Display
    \/ DriftSection

Spec == Init /\ [][Next]_vars

\* ------------------------------------------- the script in a faulty world
\* the model server goes away or comes back between runs
ModelAvailability ==
    /\ pc = "idle"
    /\ model_available' = ~model_available
    /\ UNCHANGED <<file, model_cached, disk_writable, script_vars, thread_vars>>

\* the process restarts: the cached pipeline is gone
Restart ==
    /\ pc = "idle"
    /\ model_cached
    /\ model_cached' = FALSE
    /\ UNCHANGED <<file, model_available, disk_writable, script_vars, thread_vars>>

\* the disk fills up or has room again between runs
DiskAvailability ==
    /\ pc = "idle"
    /\ disk_writable' = ~disk_writable
    /\ UNCHANGED <<file, model_cached, model_available, script_vars, thread_vars>>

\* history.json is damaged between runs
CorruptFile ==
    /\ pc = "idle"
    /\ file.exists
    /\ file.valid
    /\ file' \in {TruncatedFile, GarbageFile}
    /\ UNCHANGED <<env_vars, script_vars, thread_vars>>

InitFault ==
    /\ file \in {MissingFile, WrittenFile(<<>>), TruncatedFile, GarbageFile}
    /\ model_cached = FALSE
    /\ model_available = TRUE
    /\ disk_writable = TRUE
    /\ pc = "idle"
    /\ pressed = FALSE
    /\ text_input = TextEmpty
    /\ threshold = 5
    /\ FreshRun
    /\ accepted = <<>>
    /\ NoThreads

NextFault ==
    \/ \E press \in BOOLEAN, text \in Texts, thr \in Thresholds : StartRun(press, text, thr)
    \/ LoadModel
    \/ AnalyzeButton
    \/ CalculateScores
    \/ SaveHistory
    \/ CalculateInfluenceDna
    \/ Display
    \/ DriftSection
    \/ ModelAvailability
    \/ Restart
    \/ DiskAvailability
    \/ CorruptFile

SpecFault == InitFault /\ [][NextFault]_vars

\* -------------------------------------------- calculate_drift on its own
DriftScores == {0, 3, 17}

Histories == UNION {[1..n -> DriftScores] : n \in 0..MaxLen}

\* a rerun that has reached the drift section, over any stored history
InitDrift ==
    /\ file \in {MissingFile} \cup {WrittenFile(h) : h \in Histories}
    /\ model_cached = TRUE
    /\ model_available = TRUE
    /\ disk_writable = TRUE
    /\ pc = "drift"
    /\ pressed = FALSE
    /\ text_input = TextEmpty
    /\ threshold = 5
    /\ FreshRun
    /\ accepted = <<>>
    /\ NoThreads

NextDrift == DriftSection

SpecDrift == InitDrift /\ [][NextDrift]_vars

\* ------------------------------------ calculate_influence_dna on its own
\* an analysis that has reached line 140, over any counts
InitDna ==
    /\ file = MissingFile
    /\ model_cached = TRUE
    /\ model_available = TRUE
    /\ disk_writable = TRUE
    /\ pc = "dna"
    /\ pressed = TRUE
    /\ text_input = TextHello
    /\ threshold = 5
    /\ fear \in 0..MaxCount
    /\ urgency \in 0..MaxCount
    /\ sentiment_val \in {0, 1}
    /\ total = 0
    /\ detected_fear = <<>>
    /\ detected_urgency = <<>>
    /\ dna_score = 0
    /\ dna_level = "NONE"
    /\ screen = BlankScreen
    /\ history = <<>>
    /\ drift = 0
    /\ raised = "none"
    /\ write_attempts = 0
    /\ calls = {}
    /\ accepted = <<>>
    /\ NoThreads

NextDna == CalculateInfluenceDna

SpecDna == InitDna /\ [][NextDna]_vars

\* ------------------------------------------- concurrent save_history calls
ConcScores == {3, 20}

InitConc ==
    /\ file \in {MissingFile, WrittenFile(<<>>), WrittenFile(<<4>>)}
    /\ model_cached = TRUE
    /\ model_available = TRUE
    /\ disk_writable = TRUE
    /\ pc = "idle"
    /\ pressed = FALSE
    /\ text_input = TextEmpty
    /\ threshold = 5
    /\ FreshRun
    /\ accepted = <<>>
    /\ tpc = [t \in Threads |-> "exists"]
    /\ thistory = [t \in Threads |-> <<>>]
    /\ tscore \in [Threads -> ConcScores]
    /\ base = ReadHistory(file).value

\* if os.path.exists(HISTORY_FILE): ... else: history = []
SaveExists(t) ==
    /\ tpc[t] = "exists"
    /\ tpc' = [tpc EXCEPT ![t] = IF file.exists THEN "read" ELSE "append"]
    /\ UNCHANGED <<file, env_vars, script_vars, thistory, tscore, base>>

\* with open(HISTORY_FILE, "r") as f: history = json.load(f)
SaveRead(t) ==
    /\ tpc[t] = "read"
    /\ IF ReadHistory(file).ok
       THEN /\ thistory' = [thistory EXCEPT ![t] = ReadHistory(file).value]
            /\ tpc' = [tpc EXCEPT ![t] = "append"]
       ELSE /\ tpc' = [tpc EXCEPT ![t] = "raised"]
            /\ UNCHANGED thistory
    /\ UNCHANGED <<file, env_vars, script_vars, tscore, base>>

\* history.append(score)
SaveAppend(t) ==
    /\ tpc[t] = "append"
    /\ thistory' = [thistory EXCEPT ![t] = HistoryAppend(thistory[t], tscore[t])]
    /\ tpc' = [tpc EXCEPT ![t] = "open_w"]
    /\ UNCHANGED <<file, env_vars, script_vars, tscore, base>>

\* with open(HISTORY_FILE, "w") as f: the file is truncated
SaveOpenW(t) ==
    /\ tpc[t] = "open_w"
    /\ file' = TruncatedFile
    /\ tpc' = [tpc EXCEPT ![t] = "dump"]
    /\ UNCHANGED <<env_vars, script_vars, thistory, tscore, base>>

\* json.dump(history, f) and the close that flushes it
SaveDump(t) ==
    /\ tpc[t] = "dump"
    /\ file' = FlushOver(file, thistory[t])
    /\ tpc' = [tpc EXCEPT ![t] = "done"]
    /\ UNCHANGED <<env_vars, script_vars, thistory, tscore, base>>

NextConc ==
    \E t \in Threads :
        \/ SaveExists(t)
        \/ SaveRead(t)
        \/ SaveAppend(t)
        \/ SaveOpenW(t)
        \/ SaveDump(t)

SpecConc == InitConc /\ [][NextConc]_vars

\* ------------------------------------------------------------- properties
Levels == {"LOW", "MEDIUM", "HIGH", "CRITICAL"}

\* the list a reader finds in history.json (nothing when there is no file)
Stored(f) == IF f.exists /\ f.valid THEN JsonLoad(f.items) ELSE <<>>

AllWhitespace(text) == \A i \in 1..Len(text) : text[i] \in Whitespace

AllDone == DOMAIN tpc # {} /\ \A t \in DOMAIN tpc : tpc[t] = "done"

\* C1: once every concurrent save_history call has returned, history.json
\* holds the entries it held before plus the score of every call: no entry
\* of a concurrent call is lost.
C1_NoConcurrentEntryLost ==
    AllDone =>
        /\ file.exists
        /\ file.valid
        /\ Len(Stored(file)) = Len(base) + NThreads
        /\ \A t \in DOMAIN tpc :
               \E i \in 1..Len(Stored(file)) : Stored(file)[i] = tscore[t]

\* C2: run one after another from a missing or empty history.json, the
\* analyses leave exactly the total scores of the accepted analyses, in the
\* order submitted; save_history adds one entry at the end and changes no
\* earlier one; the drift section (load_history, calculate_drift) leaves
\* the file as it is.
C2_HistoryIsAcceptedScoresInOrder ==
    /\ [](pc # "save_history" => Stored(file) = accepted)
    /\ [][/\ pc = "save_history" =>
                /\ file'.exists
                /\ file'.valid
                /\ Stored(file') = Append(Stored(file), total)
          /\ pc = "drift" => file' = file]_vars

C2_Witness ==
    /\ pc = "idle"
    /\ Len(accepted) >= 2
    /\ accepted[1] # accepted[2]
    /\ history = accepted
    /\ file.exists

\* C3: Analyze pressed on empty or whitespace-only text ends the run with a
\* warning: calculate_scores and save_history are not called, nothing is
\* scored or displayed, history.json is unchanged.
C3_BlankInputRejectedBeforeScoring ==
    [][(pc = "button" /\ pressed /\ AllWhitespace(text_input)) =>
          /\ pc' = "idle"
          /\ screen'.warning
          /\ ~screen'.explained
          /\ calls' \cap {"calculate_scores", "save_history"} = {}
          /\ accepted' = accepted
          /\ file' = file]_vars

C3_Witness ==
    /\ pc = "idle"
    /\ pressed
    /\ text_input # <<>>
    /\ AllWhitespace(text_input)
    /\ screen.warning
    /\ accepted # <<>>
    /\ Stored(file) = accepted

\* max - min over the last min(5, length) entries, 0 below two entries
ExpectedDrift(h) ==
    IF Len(h) < 2 THEN 0
    ELSE LET n == IF Len(h) < 5 THEN Len(h) ELSE 5
             window == {h[i] : i \in (Len(h) - n + 1)..Len(h)}
             hi == CHOOSE x \in window : \A y \in window : x >= y
             lo == CHOOSE x \in window : \A y \in window : x <= y
         IN  hi - lo

\* C4: calculate_drift() is 0 for a history of fewer than 2 entries (a
\* missing file included) and otherwise max - min of its last min(5, length)
\* entries; older entries have no influence.
C4_DriftIsRangeOfLastFive ==
    (pc = "idle" /\ "calculate_drift" \in calls) =>
        /\ raised = "none"
        /\ history = Stored(file)
        /\ drift = ExpectedDrift(Stored(file))

C4_Witness ==
    /\ pc = "idle"
    /\ "calculate_drift" \in calls
    /\ Len(history) > 5
    /\ history[1] = 17
    /\ \A i \in 2..Len(history) : history[i] <= 3
    /\ drift = 3

\* C5: dna_score is fear*2 + urgency*1.5 + sentiment*2 (here in half units)
\* and the level is CRITICAL iff dna_score >= 8, HIGH iff 5 <= dna_score < 8,
\* MEDIUM iff 3 <= dna_score < 5, LOW iff dna_score < 3.
C5_DnaScoreAndRiskLevel ==
    (pc = "display") =>
        /\ dna_score = (4 * fear) + (3 * urgency) + (4 * sentiment_val)
        /\ dna_level \in Levels
        /\ dna_level = "CRITICAL" <=> dna_score >= 16
        /\ dna_level = "HIGH" <=> (dna_score >= 10 /\ dna_score < 16)
        /\ dna_level = "MEDIUM" <=> (dna_score >= 6 /\ dna_score < 10)
        /\ dna_level = "LOW" <=> dna_score < 6

C5_Witness ==
    /\ pc = "display"
    /\ dna_score = 16
    /\ dna_level = "CRITICAL"
    /\ urgency > 0

\* C6: when the sentiment model cannot be loaded or called during an
\* analysis of non-blank text, the analysis still ends with a score and a
\* risk level on the screen.
C6_AnalysisSurvivesModelOutage ==
    (pressed /\ ~AllWhitespace(text_input) /\ raised \in {"load_model", "model_call"}) =>
        /\ screen.explained
        /\ dna_level \in Levels

\* C7: over a missing or corrupted history.json, load_history returns [],
\* calculate_drift returns 0, and save_history(score) leaves a history of
\* just that score; none of them raises.
C7_MissingOrCorruptFileIsEmptyHistory ==
    [][(~file.exists \/ ~file.valid) =>
          /\ pc = "drift" =>
                /\ raised' = "none"
                /\ history' = <<>>
                /\ drift' = 0
          /\ (pc = "save_history" /\ disk_writable) =>
                /\ raised' = "none"
                /\ file'.exists
                /\ file'.valid
                /\ Stored(file') = <<total>>]_vars

\* C8: a run whose write of history.json failed has tried the write twice
\* and still reaches the display of the scores, the DNA score and the risk
\* level.
C8_WriteFailureNeverBlocksDisplay ==
    (raised = "write") =>
        /\ write_attempts = 2
        /\ screen.explained
        /\ dna_level \in Levels

\* C9: once calculate_influence_dna has run, its DNA score equals the total
\* score of calculate_scores, which is the last entry of history.json.
C9_DnaScoreEqualsTotalScore ==
    (pc \in {"display", "drift"} /\ "calculate_influence_dna" \in calls) =>
        /\ dna_score = total
        /\ Stored(file) # <<>>
        /\ Stored(file)[Len(Stored(file))] = dna_score

C9_Witness ==
    /\ pc = "display"
    /\ sentiment_val = 1
    /\ urgency = 3
    /\ dna_score = 17
    /\ dna_level = "CRITICAL"

\* one reason per category that fired, in the order fear, urgency,
\* negativity; a single message when none fired
ExpectedExplanation(f, u, n) ==
    LET reasons == (IF f > 0 THEN <<"fear">> ELSE <<>>)
                   \o (IF u > 0 THEN <<"urgency">> ELSE <<>>)
                   \o (IF n > 0 THEN <<"negativity">> ELSE <<>>)
    IN  IF reasons = <<>> THEN <<"no patterns detected">> ELSE reasons

\* C10: the explanation of an accepted analysis has exactly one reason per
\* category with a count above 0, in the order fear, urgency, negativity,
\* and is the single "no patterns detected" message when all counts are 0.
C10_ExplanationOneReasonPerCategory ==
    screen.explained =>
        screen.explanation = ExpectedExplanation(fear, urgency, sentiment_val)
====
